---- MODULE Spec2Model ----
(***************************************************************************)
(* upload-tunkin: token issuance and validation, the role guard, and the   *)
(* spreadsheet upload of the shared TunkinRepository.                      *)
(*                                                                         *)
(* Time is counted in ticks, TicksPerSecond ticks to a second, so that the *)
(* truncation of a datetime to a JWT NumericDate (whole seconds) and the   *)
(* microsecond component of the Sqids salt are both visible.               *)
(*                                                                         *)
(* Python None is modelled as the empty sequence for optional records and  *)
(* optional integers (<<>> is None, <<v>> is v) and as the string None for *)
(* optional strings.                                                       *)
(***************************************************************************)
EXTENDS Integers, Sequences, FiniteSets, TLC

VARIABLES
    sys_user,   \* sys_user JOIN employee JOIN emp_profile, keyed by user_login
    now,        \* wall clock, in ticks
    advances,   \* how often the clock has been advanced
    issued,     \* every token jwt.encode has produced so far
    req,        \* the request served by the last step (endpoint "" if none)
    resp,       \* its response
    upload_req, \* the TunkinUploadRequest of each upload: its file, its periode
    upl,        \* each upload's position in upload()/process_excel_data()
    repo_file,  \* self.file of the module-level TunkinRepository
    repo_periode, \* self.periode of the module-level TunkinRepository
    closed,     \* the files whose handle has been closed
    salary_kpi, \* the rows of table salary_kpi
    call,       \* the last direct call of a helper: its arguments, its result
    fetched,    \* the page envelopes a client has fetched so far, by page
    paging,     \* a fetch_page call between its count query and its data query
    pool,       \* the cached connection pool and each pool's checked-out count
    db_ops      \* each caller's position in database_connection/_database_cursor

authVars == <<sys_user, now, advances, issued, req, resp>>
uploadVars == <<upload_req, upl, repo_file, repo_periode, closed, salary_kpi>>
callVars == <<call, fetched, paging, pool, db_ops>>
vars == <<sys_user, now, advances, issued, req, resp,
          upload_req, upl, repo_file, repo_periode, closed, salary_kpi,
          call, fetched, paging, pool, db_ops>>

\* ------------------------------------------------------------------ bounds
TicksPerSecond == 2
MaxAdvance == 2
MaxTokens == 2
MaxNumber == 3
MaxPageSize == 3
MaxPage == 4

\* ----------------------------------------------------------- configuration
jwt_access_token_expire_minutes == 30
refresh_token_expire_days == 7
jwt_client_id == "upload-tunkin-client"
jwt_client_secret == "your_client_secret"
jwt_secret_key == "your_secret_key"

None == "None"

Usernames == {"alice", "bob"}
LoginNames == Usernames \cup {"ghost"}
Passwords == {"pw-alice", "pw-bob"}
PlainPassword == [alice |-> "pw-alice", bob |-> "pw-bob"]
ClientIds == {jwt_client_id, "other-client"}
ClientSecrets == {jwt_client_secret, "other-secret"}
RoleIds == {1, 2, 3}
RequiredRoles == {{"payrollprocess"}, {"admin"}}

\* rows of sys_role_menu JOIN sys_role JOIN sys_menu: role 3 has no row
sys_role_menu == [r \in {1, 2} |-> IF r = 1 THEN {"payrollprocess"} ELSE {"admin"}]

\* ------------------------------------------------------------- wall clock
SecondsOf(t) == t \div TicksPerSecond
clock_second(t) == SecondsOf(t) % 60
clock_minute(t) == (SecondsOf(t) \div 60) % 60
clock_microsecond(t) == (t % TicksPerSecond) * (1000000 \div TicksPerSecond)
\* the clock starts at 1 January, 00:00:00; months of 31 days
clock_day(t) == 1 + ((SecondsOf(t) \div 86400) % 31)
clock_month(t) == 1 + (((SecondsOf(t) \div 86400) \div 31) % 12)

\* ------------------------------------------------------------ SqidsHelper
\* A Sqids id is modelled by the list of numbers it encodes; '' is <<>>.
encode(number) ==
    <<clock_second(now), number, clock_month(now), clock_day(now),
      clock_minute(now), clock_microsecond(now)>>

\* mutant: the first number of the payload is taken
decode_first_number(hashid) ==
    IF Len(hashid) >= 1
    THEN [raised |-> "", value |-> hashid[1]]
    ELSE [raised |-> "IndexError", value |-> 0]

\* decoded[1]; IndexError when the id holds fewer than two numbers
decode(hashid) ==
    IF Len(hashid) >= 2
    THEN [raised |-> "", value |-> hashid[2]]
    ELSE [raised |-> "IndexError", value |-> 0]

\* ------------------------------------------------------ SysUserRepository
\* MySQL PASSWORD(): a one-way hash, injective on the plaintexts modelled
PASSWORD(plain) == <<"*", plain>>

NoRow == [present |-> FALSE, emp_status |-> 0, user_role_id |-> <<>>,
          user_password |-> PASSWORD("")]

\* the rows the table can start with: any row for alice, while bob is an
\* active user of role 2 (either can be disabled or deleted later)
UserRows(u) ==
    IF u = "alice"
    THEN {NoRow} \cup
         [present : {TRUE}, emp_status : {0, 1},
          user_role_id : {<<>>} \cup {<<r>> : r \in RoleIds},
          user_password : {PASSWORD(PlainPassword[u])}]
    ELSE {[present |-> TRUE, emp_status |-> 1, user_role_id |-> <<2>>,
           user_password |-> PASSWORD(PlainPassword[u])]}

get_user(username) ==
    IF username \notin Usernames \/ ~sys_user[username].present
    THEN <<>>
    ELSE LET row == sys_user[username] IN
         <<[username |-> username,
            full_name |-> <<"name of", username>>,
            email |-> <<"mail of", username>>,
            disabled |-> (row.emp_status # 1),
            role |-> IF row.user_role_id # <<>>
                     THEN encode(row.user_role_id[1])
                     ELSE <<>>,
            user_password |-> row.user_password]>>

validate_password(plain_password, hashed_password) ==
    PASSWORD(plain_password) = hashed_password

\* mutant: the password is never compared
authenticate_without_password(username, password) ==
    get_user(username)

authenticate(username, password) ==
    LET result == get_user(username) IN
    IF result = <<>>
    THEN <<>>
    ELSE IF ~validate_password(password, result[1].user_password)
         THEN <<>>
         ELSE result

\* ------------------------------------------------------------ TokenHelper
\* mutant: only the client id is compared
validata_client_id_only(client_id, client_secret) ==
    jwt_client_id = client_id

validata_client(client_id, client_secret) ==
    jwt_client_id = client_id /\ jwt_client_secret = client_secret

\* jwt.encode: exp and iat become NumericDates (whole seconds), the claims
\* are signed with the configured key
jwt_encode(to_encode, key) ==
    [to_encode EXCEPT !.exp = SecondsOf(to_encode.exp),
                      !.iat = SecondsOf(to_encode.iat),
                      !.key = key]

\* expires_delta in seconds; 0 stands for None (timedelta(0) is falsy too)
DefaultDelta == jwt_access_token_expire_minutes * 60

create_access_token(data, expires_delta) ==
    LET expire == now + (IF expires_delta # 0 THEN expires_delta ELSE DefaultDelta)
                        * TicksPerSecond
    IN  jwt_encode([sub |-> data.username,
                    name |-> data.full_name,
                    email |-> data.email,
                    role |-> data.role,
                    exp |-> expire,
                    iat |-> now,
                    type |-> "access_token",
                    key |-> ""], jwt_secret_key)

create_refresh_token(data, expires_delta) ==
    LET expire == now + (IF expires_delta # 0 THEN expires_delta ELSE DefaultDelta)
                        * TicksPerSecond
    IN  jwt_encode([sub |-> data.username,
                    name |-> <<>>,
                    email |-> <<>>,
                    role |-> <<>>,
                    exp |-> expire,
                    iat |-> now,
                    type |-> "refresh_token",
                    key |-> ""], jwt_secret_key)

\* mutant: exp is not verified
decode_token_ignores_exp(token) ==
    IF token.key # jwt_secret_key
    THEN [raised |-> "InvalidTokenError", payload |-> token]
    ELSE [raised |-> "", payload |-> token]

\* jwt.decode: the signature first, then exp <= now
decode_token(token) ==
    IF token.key # jwt_secret_key
    THEN [raised |-> "InvalidTokenError", payload |-> token]
    ELSE IF token.exp * TicksPerSecond <= now
         THEN [raised |-> "ExpiredSignatureError", payload |-> token]
         ELSE [raised |-> "", payload |-> token]

\* what a dependency or a handler hands back: the user it passes through,
\* or the exception it raises (HTTPException with status_code and detail,
\* or any other exception, which nothing maps to a response: a 500)
Outcome(status, raised, detail, user) ==
    [status |-> status, raised |-> raised, detail |-> detail, user |-> user]

credentials_exception ==
    Outcome(401, "HTTPException", "Could not validate credentials", <<>>)

\* mutant: the type claim is not looked at
get_current_user_any_type(token) ==
    LET decoded == decode_token(token)
        payload == decoded.payload
        user == get_user(payload.sub)
    IN  IF decoded.raised = "ExpiredSignatureError"
        THEN Outcome(401, "HTTPException", "Token has expired", <<>>)
        ELSE IF decoded.raised # ""
        THEN credentials_exception
        ELSE IF payload.sub = None
        THEN credentials_exception
        ELSE IF user = <<>> \/ user[1].disabled
        THEN credentials_exception
        ELSE Outcome(200, "", "", user)

\* mutant: the user is built from the token's claims, the table is not read
get_current_user_from_claims(token) ==
    LET decoded == decode_token(token)
        payload == decoded.payload
    IN  IF decoded.raised = "ExpiredSignatureError"
        THEN Outcome(401, "HTTPException", "Token has expired", <<>>)
        ELSE IF decoded.raised # ""
        THEN credentials_exception
        ELSE IF payload.sub = None \/ payload.type # "access_token"
        THEN credentials_exception
        ELSE Outcome(200, "", "",
                     <<[username |-> payload.sub, full_name |-> payload.name,
                        email |-> payload.email, disabled |-> FALSE,
                        role |-> payload.role,
                        user_password |-> PASSWORD("")]>>)

\* mutant: the role of the user passed on is the token's role claim
get_current_user_token_role(token) ==
    LET decoded == decode_token(token)
        payload == decoded.payload
        user == get_user(payload.sub)
    IN  IF decoded.raised = "ExpiredSignatureError"
        THEN Outcome(401, "HTTPException", "Token has expired", <<>>)
        ELSE IF decoded.raised # ""
        THEN credentials_exception
        ELSE IF payload.sub = None \/ payload.type # "access_token"
        THEN credentials_exception
        ELSE IF user = <<>> \/ user[1].disabled
        THEN credentials_exception
        ELSE Outcome(200, "", "", <<[user[1] EXCEPT !.role = payload.role]>>)

get_current_user(token) ==
    LET decoded == decode_token(token)
        payload == decoded.payload
        user == get_user(payload.sub)
    IN  IF decoded.raised = "ExpiredSignatureError"
        THEN Outcome(401, "HTTPException", "Token has expired", <<>>)
        ELSE IF decoded.raised # ""
        THEN credentials_exception
        ELSE IF payload.sub = None \/ payload.type # "access_token"
        THEN credentials_exception
        ELSE IF user = <<>> \/ user[1].disabled
        THEN credentials_exception
        ELSE Outcome(200, "", "", user)

\* ------------------------------------------------------- SysMenuRepository
fetch_menus(role_id) ==
    IF role_id \in DOMAIN sys_role_menu THEN sys_role_menu[role_id] ELSE {}

\* ------------------------------------------------------------ require_role
role_checker(current_user, required_role) ==
    LET user_role == decode(current_user.role)
        menus == fetch_menus(user_role.value)
    IN  IF current_user.disabled
        THEN Outcome(400, "HTTPException", "Inactive user", <<>>)
        ELSE IF user_role.raised # ""
        THEN Outcome(500, user_role.raised, "", <<>>)
        ELSE IF menus \cap required_role = {}
        THEN Outcome(403, "HTTPException", "Insufficient permissions", <<>>)
        ELSE Outcome(200, "", "", <<current_user>>)

\* Depends(get_current_user) is resolved first; role_checker runs only if it
\* returned a user
require_role(required_role, token) ==
    LET current_user == get_current_user(token) IN
    IF current_user.status # 200
    THEN current_user
    ELSE role_checker(current_user.user[1], required_role)

\* --------------------------------------------------------- ResponseBuilder
NoData == [tokens |-> <<>>, expires_in |-> 0, valid |-> FALSE,
           username |-> None, error |-> "", organizations |-> {}]

\* success(): the envelope with data, no errors
success(status, data) == [status |-> status, errors |-> "", data |-> data]

\* error(): the envelope with errors, no data
error(status, errors) == [status |-> status, errors |-> errors, data |-> NoData]

unauthorized(errors) == error(401, errors)
bad_request(errors) == error(400, errors)
internal_server_error(errors) == error(500, errors)

\* ------------------------------------------------------------ routers/auth
\* POST /token.  The result carries the tokens the handler created.
authenticate_user(client_id, client_secret, username, password) ==
    LET user == authenticate(username, password)
        access_token ==
            create_access_token(user[1], jwt_access_token_expire_minutes * 60)
        refresh_token_ ==
            create_refresh_token(user[1], refresh_token_expire_days * 86400)
    IN  IF ~validata_client(client_id, client_secret)
        THEN unauthorized("Invalid client credentials")
        ELSE IF user = <<>>
        THEN unauthorized("Incorrect username or password")
        ELSE IF user[1].disabled
        THEN bad_request("inactive_user")
        ELSE success(201, [NoData EXCEPT
                 !.tokens = <<access_token, refresh_token_>>,
                 !.expires_in = jwt_access_token_expire_minutes * 60])

\* mutant: the type claim of the presented token is not looked at
refresh_token_any_type(token) ==
    LET decoded == decode_token(token)
        payload == decoded.payload
        user == get_user(payload.sub)
        new_access_token == create_access_token(user[1], 0)
    IN  IF decoded.raised = "ExpiredSignatureError"
        THEN unauthorized("Refresh token has expired")
        ELSE IF decoded.raised # ""
        THEN unauthorized("Invalid refresh token")
        ELSE IF user = <<>>
        THEN unauthorized("Could not refresh token")
        ELSE success(200, [NoData EXCEPT
                 !.tokens = <<new_access_token>>,
                 !.expires_in = jwt_access_token_expire_minutes * 60])

\* POST /refresh
refresh_token(token) ==
    LET decoded == decode_token(token)
        payload == decoded.payload
        user == get_user(payload.sub)
        new_access_token == create_access_token(user[1], 0)
    IN  IF decoded.raised = "ExpiredSignatureError"
        THEN unauthorized("Refresh token has expired")
        ELSE IF decoded.raised # ""
        THEN unauthorized("Invalid refresh token")
        ELSE IF payload.type # "refresh_token"
        THEN unauthorized("Could not refresh token")
        ELSE IF user = <<>>
        THEN unauthorized("Could not refresh token")
        ELSE success(200, [NoData EXCEPT
                 !.tokens = <<new_access_token>>,
                 !.expires_in = jwt_access_token_expire_minutes * 60])

\* ---------------------------------------------------- routers/organization
\* the organization table: one enabled and one disabled organization
organization ==
    {[org_id |-> 1, org_name |-> "Kantor Pusat", org_status |-> "Enabled"],
     [org_id |-> 2, org_name |-> "Cabang", org_status |-> "Disabled"]}

\* OrganizationRepository.fetch_all: the enabled rows with org_id encoded, or
\* the exception raised when there is none
fetch_all ==
    LET result == {o \in organization : o.org_status = "Enabled"} IN
    IF result = {}
    THEN [raised |-> "Exception", rows |-> {}]
    ELSE [raised |-> "",
          rows |-> {[org_id |-> encode(o.org_id), org_name |-> o.org_name] :
                    o \in result}]

\* require_any_role is handed to Depends() uncalled, so the framework calls
\* the factory itself for each request: its parameter required_roles (a list)
\* is read from the request body, and what it returns, the inner role_checker
\* function, is the value the handler gets as user.  The inner function is
\* never called and get_current_user is never resolved.
require_any_role(required_roles) ==
    IF required_roles = <<>>
    THEN Outcome(422, "RequestValidationError", "Field required", <<>>)
    ELSE Outcome(200, "", "", <<>>)

\* GET /organization/list.  from_exception is not a method of ResponseBuilder:
\* the except branch raises AttributeError, which nothing maps to a response.
fetch_list_organization(required_roles) ==
    LET user == require_any_role(required_roles)
        data == fetch_all
    IN  IF user.status # 200
        THEN error(user.status, user.detail)
        ELSE IF data.raised # ""
        THEN [status |-> 500, errors |-> "AttributeError", data |-> NoData]
        ELSE success(200, [NoData EXCEPT !.organizations = data.rows])

\* GET /me, guarded by require_role(["payrollprocess"]).  An HTTPException of
\* the guard is answered by the application's handler.  When the guard passes,
\* current_user is the dict get_user built and has no model_dump():
\* AttributeError, which the handler does not catch (it catches
\* HTTPException only) and nothing maps to a response.
read_users_me(token) ==
    LET current_user == require_role({"payrollprocess"}, token) IN
    IF current_user.status # 200
    THEN [guard |-> current_user, status |-> current_user.status,
          errors |-> current_user.detail, data |-> NoData]
    ELSE [guard |-> current_user, status |-> 500,
          errors |-> "AttributeError", data |-> NoData]

\* OPTIONS /validate
validate_token(token) ==
    LET decoded == decode_token(token)
        payload == decoded.payload
    IN  IF decoded.raised = "ExpiredSignatureError"
        THEN success(200, [NoData EXCEPT !.error = "Token has expired"])
        ELSE IF decoded.raised # ""
        THEN success(200, [NoData EXCEPT !.error = "Invalid token"])
        ELSE success(200, [NoData EXCEPT !.valid = TRUE,
                                         !.username = payload.sub])

\* ------------------------------------------------------- TunkinRepository
_max_file_size == 50 * 1024 * 1024
_allowed_extension == {"xlsx", "xls"}
allowed_content_types ==
    {"application/vnd.ms-excel",
     "application/vnd.openxmlformats-officedocument.spreadsheetml.sheet"}

Uploads == {"A", "B"}
NoFile == "None"
Periodes == {"202401", "202402"}

\* a sheet row from row START_ROW = 6 on, as iter_rows(values_only=True) yields it:
\* row[1] is the periode cell (<<>> when empty), row[2] nipam, row[4] nominal
SheetRow(periode, nipam, nominal) ==
    [periode |-> periode, nipam |-> nipam, nominal |-> nominal]

\* an UploadFile: filename as its dot-separated parts, size in bytes, the
\* declared content type, whether its bytes are a workbook at all, and the
\* rows of the active sheet
Xlsx(rows) ==
    [present |-> TRUE, filename |-> <<"tunkin", "XLSX">>, size |-> 2097152,
     content_type |->
         "application/vnd.openxmlformats-officedocument.spreadsheetml.sheet",
     workbook |-> TRUE, rows |-> rows]

NoUploadFile ==
    [present |-> FALSE, filename |-> <<>>, size |-> 0, content_type |-> "",
     workbook |-> FALSE, rows |-> <<>>]

UploadFiles ==
    {Xlsx(<<SheetRow(<<202401>>, 11, 100)>>),
     Xlsx(<<SheetRow(<<202402>>, 11, 200), SheetRow(<<>>, 0, 0),
            SheetRow(<<202402>>, 12, 300)>>),
     Xlsx(<<SheetRow(<<202401>>, 11, 100), SheetRow(<<202402>>, 11, 200)>>),
     Xlsx(<<>>),
     [Xlsx(<<SheetRow(<<202401>>, 11, 100)>>) EXCEPT !.filename = <<"tunkin", "csv">>],
     [Xlsx(<<>>) EXCEPT !.filename = <<"tunkin", "csv">>, !.size = 0,
                        !.content_type = "text/csv"],
     [Xlsx(<<>>) EXCEPT !.filename = <<>>, !.size = 0],
     [Xlsx(<<>>) EXCEPT !.size = 0, !.content_type = "text/plain"],
     [Xlsx(<<SheetRow(<<202401>>, 11, 100)>>) EXCEPT
          !.size = _max_file_size + 1, !.content_type = "text/plain"],
     [Xlsx(<<SheetRow(<<202401>>, 11, 100)>>) EXCEPT
          !.filename = <<"tunkin", "2024", "xls">>,
          !.content_type = "text/plain"],
     [Xlsx(<<>>) EXCEPT !.workbook = FALSE],
     NoUploadFile}

\* str.lower() on the extensions modelled
lower(str) ==
    IF str = "XLSX" THEN "xlsx" ELSE IF str = "XLS" THEN "xls" ELSE str

HTTPException(status_code, detail) ==
    [raised |-> "HTTPException", status_code |-> status_code,
     detail |-> detail, affected_rows |-> 0]
Raised(exception) ==
    [raised |-> exception, status_code |-> 0, detail |-> "", affected_rows |-> 0]
Returned(affected_rows) ==
    [raised |-> "", status_code |-> 0, detail |-> "success",
     affected_rows |-> affected_rows]
NoResult == [raised |-> "", status_code |-> 0, detail |-> "", affected_rows |-> 0]

\* mutant: the content type is validated before the size
_file_checker_type_before_size(file) ==
    IF ~file.present
    THEN HTTPException(400, "File tidak ditemukan")
    ELSE IF file.filename = <<>>
    THEN HTTPException(400, "Nama File tidak valid")
    ELSE IF lower(file.filename[Len(file.filename)]) \notin _allowed_extension
    THEN HTTPException(400, "Ekstensi file tidak diizinkan")
    ELSE IF file.content_type \notin allowed_content_types
    THEN HTTPException(400, "Tipe konten file tidak valid untuk file Excel.")
    ELSE IF file.size > _max_file_size
    THEN HTTPException(400, "Ukuran file melebihi batas maksimum")
    ELSE IF file.size = 0
    THEN HTTPException(400, "File Kosong")
    ELSE NoResult

\* the first rule the file breaks, as the exception raised; NoResult if none
_file_checker(file) ==
    IF ~file.present
    THEN HTTPException(400, "File tidak ditemukan")
    ELSE IF file.filename = <<>>
    THEN HTTPException(400, "Nama File tidak valid")
    ELSE IF lower(file.filename[Len(file.filename)]) \notin _allowed_extension
    THEN HTTPException(400, "Ekstensi file tidak diizinkan")
    ELSE IF file.size > _max_file_size
    THEN HTTPException(400, "Ukuran file melebihi batas maksimum")
    ELSE IF file.size = 0
    THEN HTTPException(400, "File Kosong")
    ELSE IF file.content_type \notin allowed_content_types
    THEN HTTPException(400, "Tipe konten file tidak valid untuk file Excel.")
    ELSE NoResult

\* the rows kept by the loop over iter_rows: (str(row[1]), str(row[2]), row[4])
RECURSIVE extract_data(_)
extract_data(rows) ==
    IF rows = <<>>
    THEN <<>>
    ELSE IF Head(rows).periode = <<>>
         THEN extract_data(Tail(rows))
         ELSE <<<<ToString(Head(rows).periode[1]), ToString(Head(rows).nipam),
                  Head(rows).nominal>>>> \o extract_data(Tail(rows))

\* mutant: a plain INSERT, the row of an existing key is kept
RECURSIVE executemany_insert_only(_, _)
executemany_insert_only(table, data) ==
    IF data = <<>>
    THEN table
    ELSE executemany_insert_only(table \cup {Head(data)}, Tail(data))

\* mutant: the rows of the batch's periods are deleted before the insert
executemany_replace_period(table, data) ==
    {row \in table : \A i \in DOMAIN data : row[1] # data[i][1]}
        \cup {data[i] : i \in {k \in DOMAIN data :
                  \A j \in DOMAIN data :
                      (j > k) => <<data[j][1], data[j][2]>> # <<data[k][1], data[k][2]>>}}

\* INSERT ... ON DUPLICATE KEY UPDATE nominal = VALUES(nominal), row by row
RECURSIVE executemany(_, _)
executemany(table, data) ==
    IF data = <<>>
    THEN table
    ELSE executemany(
             {row \in table : <<row[1], row[2]>> # <<Head(data)[1], Head(data)[2]>>}
                 \cup {Head(data)},
             Tail(data))

\* how the database can take a batch: all goes well, executemany raises
\* after some rows, commit raises, or no connection can be had
DbOutcomes == {"ok", "execute fails", "commit fails", "connection fails"}

\* mutant: the pool hands out autocommit connections, so every row is
\* committed as it is executed and rollback undoes nothing
save_update_autocommit(table, data, db, applied) ==
    LET executed == IF db = "execute fails" THEN SubSeq(data, 1, applied) ELSE data
    IN  [table |-> executemany(table, executed), committed |-> db = "ok"]

\* save_update() on a connection of the pool with autocommit off: the rows
\* executemany got through before it raised (applied of them) are in the
\* open transaction only.  An exception of executemany or of commit is
\* answered by rollback, logged and swallowed; the function has no return
\* value.
save_update(table, data, db, applied) ==
    LET executed == IF db = "execute fails" THEN SubSeq(data, 1, applied) ELSE data
        in_transaction == executemany(table, executed)
    IN  IF db = "ok"
        THEN [table |-> in_transaction, committed |-> TRUE]
        ELSE [table |-> table, committed |-> FALSE]

\* load_workbook(file_like): raises on bytes that are no workbook
load_workbook(file) ==
    IF file.workbook THEN NoResult ELSE Raised("BadZipFile")

\* process_excel_data() from the parsed contents on: the checks, the upsert,
\* and what the try block returns or raises
process_rows(rows, periode, db) ==
    LET data == extract_data(rows)
        unique_periode == {data[i][1] : i \in DOMAIN data}
    IN  IF Len(data) = 0
        THEN HTTPException(400, "File Excel kosong")
        ELSE IF Cardinality(unique_periode) > 1
        THEN HTTPException(400, "Periode pada file excel tidak konsisten!")
        ELSE IF \E value \in unique_periode : value # periode
        THEN HTTPException(400, "Periode pada file dengan request tidak sesuai!")
        ELSE IF db = "connection fails"
        THEN Raised("MySQLError")
        ELSE Returned(0)

\* ----------------------------------------------------------- routers/tunkin
\* POST /tunkin/upload: what the handler answers for what upload() did.  An
\* exception that is no HTTPException leaves the handler (a bare 500); an
\* HTTPException of another status than 400 or 500 falls off the end of the
\* handler, which then returns None.
upload_file(result) ==
    IF result.raised = ""
    THEN [status |-> 200, envelope |-> TRUE, errors |-> "",
          affected_rows |-> result.affected_rows]
    ELSE IF result.raised = "HTTPException" /\ result.status_code \in {400, 500}
    THEN [status |-> result.status_code, envelope |-> TRUE,
          errors |-> result.detail, affected_rows |-> 0]
    ELSE IF result.raised = "HTTPException"
    THEN [status |-> 200, envelope |-> FALSE, errors |-> "", affected_rows |-> 0]
    ELSE [status |-> 500, envelope |-> FALSE, errors |-> result.raised,
          affected_rows |-> 0]

NoAnswer == [status |-> 0, envelope |-> FALSE, errors |-> "", affected_rows |-> 0]

\* an upload: where it is (pc), the file its pending seek or read was called
\* on (target), what the try block left for after the finally (pending),
\* the file whose rows it parsed and the periode it compared them with, the
\* handler's answer, the batch it handed to save_update and whether that was
\* committed, and how often a finally block has reset its file with seek(0)
NewUpload ==
    [pc |-> "new", target |-> NoFile, pending |-> NoResult,
     parsed_file |-> NoFile, periode_checked |-> "", answer |-> NoAnswer,
     batch |-> <<>>, committed |-> FALSE, resets |-> 0]

InFlight(u) == upl[u].pc \in {"seek", "read", "finally"}

UploadInit ==
    /\ upload_req \in [Uploads -> [file : UploadFiles, periode : Periodes]]
    /\ upl = [u \in Uploads |-> NewUpload]
    /\ repo_file = NoFile
    /\ repo_periode = ""
    /\ closed = {}
    /\ salary_kpi \in {{}, {<<"202401", "11", 50>>}}

\* the finally block of process_excel_data: seek(0) on self.file if there is
\* one, and then the pending return or raise goes to the handler
Finally(u, pending) ==
    IF repo_file # NoFile
    THEN [upl[u] EXCEPT !.pc = "finally", !.target = repo_file,
                        !.pending = pending]
    ELSE [upl[u] EXCEPT !.pc = "done", !.target = NoFile, !.pending = pending,
                        !.answer = upload_file(pending)]

\* a seek or read running in the thread pool while the file is closed under
\* it either completed before the close or raises ValueError
IoOutcomes(target) == IF target \in closed THEN {"ok", "ValueError"} ELSE {"ok"}

\* upload(): cleanup(), self.periode, self.file, _file_checker(), and
\* process_excel_data() up to its first await
UploadStart(u) ==
    LET file == upload_req[u].file
        checked == _file_checker(file)
    IN  /\ upl[u].pc = "new"
        /\ closed' = IF repo_file # NoFile THEN closed \cup {repo_file} ELSE closed
        /\ repo_periode' = upload_req[u].periode
        /\ repo_file' = IF file.present THEN u ELSE NoFile
        /\ upl' = [upl EXCEPT ![u] =
               IF checked.raised # ""
               THEN [@ EXCEPT !.pc = "done", !.pending = checked,
                              !.answer = upload_file(checked)]
               ELSE [@ EXCEPT !.pc = "seek", !.target = u]]
        /\ UNCHANGED <<upload_req, salary_kpi>>
        /\ UNCHANGED authVars
        /\ UNCHANGED callVars

\* await self.file.seek(0) returns or raises; then self.file.read() is called
SeekDone(u) ==
    /\ upl[u].pc = "seek"
    /\ \E io \in IoOutcomes(upl[u].target) :
           upl' = [upl EXCEPT ![u] =
               IF io # "ok"
               THEN Finally(u, Raised(io))
               ELSE IF repo_file = NoFile
               THEN Finally(u, Raised("AttributeError"))
               ELSE [@ EXCEPT !.pc = "read", !.target = repo_file]]
    /\ UNCHANGED <<upload_req, repo_file, repo_periode, closed, salary_kpi>>
    /\ UNCHANGED authVars
    /\ UNCHANGED callVars

\* await self.file.read() returns or raises; the workbook is parsed, checked
\* against self.periode and upserted; then the finally block starts
ReadDone(u) ==
    /\ upl[u].pc = "read"
    /\ \E io \in IoOutcomes(upl[u].target), db \in DbOutcomes :
           LET rows == upload_req[upl[u].target].file.rows
               data == extract_data(rows)
               loaded == load_workbook(upload_req[upl[u].target].file)
               result == IF loaded.raised # ""
                         THEN loaded
                         ELSE process_rows(rows, repo_periode, db)
           IN  IF io # "ok"
               THEN /\ upl' = [upl EXCEPT ![u] = Finally(u, Raised(io))]
                    /\ UNCHANGED salary_kpi
               ELSE IF result.raised \in {"HTTPException", "BadZipFile"}
               THEN /\ upl' = [upl EXCEPT ![u] =
                           [Finally(u, result) EXCEPT
                                !.parsed_file = upl[u].target,
                                !.periode_checked = repo_periode]]
                    /\ UNCHANGED salary_kpi
               ELSE \E applied \in 0 .. (IF db = "execute fails"
                                          THEN Len(data) - 1 ELSE 0) :
                        LET saved == save_update(salary_kpi, data, db, applied)
                        IN  /\ upl' = [upl EXCEPT ![u] =
                                   [Finally(u, result) EXCEPT
                                        !.parsed_file = upl[u].target,
                                        !.periode_checked = repo_periode,
                                        !.batch = data,
                                        !.committed = saved.committed]]
                            /\ salary_kpi' = saved.table
    /\ UNCHANGED <<upload_req, repo_file, repo_periode, closed>>
    /\ UNCHANGED authVars
    /\ UNCHANGED callVars

\* the seek(0) of the finally block returns or raises; upload() is over and
\* the handler answers
FinallyDone(u) ==
    /\ upl[u].pc = "finally"
    /\ \E io \in IoOutcomes(upl[u].target) :
           LET result == IF io # "ok" THEN Raised(io) ELSE upl[u].pending
               reset == IF io = "ok"
                        THEN [upl EXCEPT ![upl[u].target].resets = @ + 1]
                        ELSE upl
           IN  upl' = [reset EXCEPT ![u] =
                   [@ EXCEPT !.pc = "done", !.target = NoFile,
                             !.pending = result, !.answer = upload_file(result)]]
    /\ UNCHANGED <<upload_req, repo_file, repo_periode, closed, salary_kpi>>
    /\ UNCHANGED authVars
    /\ UNCHANGED callVars

\* ----------------------------------------------------------------- state
NoRequest ==
    [endpoint |-> "", client_id |-> "", client_secret |-> "", username |-> "",
     password |-> "", token |-> <<>>, required_role |-> {},
     required_roles |-> <<>>]

NoResponse ==
    [status |-> 0, errors |-> "", data |-> NoData,
     guard |-> Outcome(0, "", "", <<>>)]

\* tokens a caller can present besides the issued ones: one signed with
\* another key, and one signed with the configured key but without a subject
CraftedTokens ==
    {[sub |-> "alice", name |-> <<>>, email |-> <<>>, role |-> <<>>,
      exp |-> SecondsOf(now) + DefaultDelta, iat |-> SecondsOf(now),
      type |-> "access_token", key |-> "another key"],
     [sub |-> None, name |-> <<>>, email |-> <<>>, role |-> <<>>,
      exp |-> SecondsOf(now) + DefaultDelta, iat |-> SecondsOf(now),
      type |-> "access_token", key |-> jwt_secret_key]}

PresentableTokens == issued \cup CraftedTokens

TokensOf(response) == {response.data.tokens[i] : i \in DOMAIN response.data.tokens}

AuthInit ==
    /\ sys_user \in [Usernames -> UNION {UserRows(u) : u \in Usernames}]
    /\ \A u \in Usernames : sys_user[u] \in UserRows(u)
    /\ now \in 0 .. (TicksPerSecond - 1)
    /\ advances = 0
    /\ issued = {}
    /\ req = NoRequest
    /\ resp = NoResponse

\* ---------------------------------------------------------------- requests
TokenEndpoint ==
    \E client_id \in ClientIds, client_secret \in ClientSecrets,
       username \in LoginNames, password \in Passwords :
        LET response ==
                authenticate_user(client_id, client_secret, username, password)
        IN  /\ req = NoRequest
            /\ Cardinality(issued \cup TokensOf(response)) <= MaxTokens
            /\ issued' = issued \cup TokensOf(response)
            /\ req' = [NoRequest EXCEPT !.endpoint = "token",
                           !.client_id = client_id,
                           !.client_secret = client_secret,
                           !.username = username, !.password = password]
            /\ resp' = [NoResponse EXCEPT !.status = response.status,
                           !.errors = response.errors, !.data = response.data]
            /\ UNCHANGED <<sys_user, now, advances>>
            /\ UNCHANGED uploadVars
            /\ UNCHANGED callVars

RefreshEndpoint ==
    \E token \in PresentableTokens :
        LET response == refresh_token(token)
        IN  /\ req = NoRequest
            /\ Cardinality(issued \cup TokensOf(response)) <= MaxTokens
            /\ issued' = issued \cup TokensOf(response)
            /\ req' = [NoRequest EXCEPT !.endpoint = "refresh",
                                        !.token = <<token>>]
            /\ resp' = [NoResponse EXCEPT !.status = response.status,
                           !.errors = response.errors, !.data = response.data]
            /\ UNCHANGED <<sys_user, now, advances>>
            /\ UNCHANGED uploadVars
            /\ UNCHANGED callVars

ValidateEndpoint ==
    \E token \in PresentableTokens :
        LET response == validate_token(token)
        IN  /\ req = NoRequest
            /\ req' = [NoRequest EXCEPT !.endpoint = "validate",
                                        !.token = <<token>>]
            /\ resp' = [NoResponse EXCEPT !.status = response.status,
                           !.errors = response.errors, !.data = response.data]
            /\ UNCHANGED <<sys_user, now, advances, issued>>
            /\ UNCHANGED uploadVars
            /\ UNCHANGED callVars

\* a request to an endpoint guarded by Depends(require_role(required_role)),
\* up to the point where the guard has passed the user through or raised
GuardedRequest ==
    \E token \in PresentableTokens, required_role \in RequiredRoles :
        LET outcome == require_role(required_role, token)
        IN  /\ req = NoRequest
            /\ req' = [NoRequest EXCEPT !.endpoint = "guarded",
                           !.token = <<token>>,
                           !.required_role = required_role]
            /\ resp' = [NoResponse EXCEPT !.guard = outcome]
            /\ UNCHANGED <<sys_user, now, advances, issued>>
            /\ UNCHANGED uploadVars
            /\ UNCHANGED callVars

MeEndpoint ==
    \E token \in PresentableTokens :
        LET response == read_users_me(token)
        IN  /\ req = NoRequest
            /\ req' = [NoRequest EXCEPT !.endpoint = "me",
                           !.token = <<token>>,
                           !.required_role = {"payrollprocess"}]
            /\ resp' = [NoResponse EXCEPT !.status = response.status,
                           !.errors = response.errors, !.data = response.data,
                           !.guard = response.guard]
            /\ UNCHANGED <<sys_user, now, advances, issued>>
            /\ UNCHANGED uploadVars
            /\ UNCHANGED callVars

\* GET /organization/list, with or without an Authorization header and with
\* or without a JSON list as its body
AllowedRoleLists == {<<>>, <<{"admin"}>>}

OrganizationEndpoint ==
    \E token \in {<<>>} \cup {<<t>> : t \in PresentableTokens},
       required_roles \in AllowedRoleLists :
        LET response == fetch_list_organization(required_roles)
        IN  /\ req = NoRequest
            /\ req' = [NoRequest EXCEPT !.endpoint = "organization",
                           !.token = token,
                           !.required_roles = required_roles]
            /\ resp' = [NoResponse EXCEPT !.status = response.status,
                           !.errors = response.errors, !.data = response.data]
            /\ UNCHANGED <<sys_user, now, advances, issued>>
            /\ UNCHANGED uploadVars
            /\ UNCHANGED callVars

\* the JSONResponse leaves the server: the request is over
Deliver ==
    /\ req # NoRequest
    /\ req' = NoRequest
    /\ resp' = NoResponse
    /\ UNCHANGED <<sys_user, now, advances, issued>>
    /\ UNCHANGED uploadVars
    /\ UNCHANGED callVars

\* ------------------------------------------------------------- environment
AdvanceSteps ==
    {1, jwt_access_token_expire_minutes * 60 * TicksPerSecond,
     refresh_token_expire_days * 86400 * TicksPerSecond}

Advance ==
    \E d \in AdvanceSteps :
        /\ req = NoRequest
        /\ advances < MaxAdvance
        /\ now' = now + d
        /\ advances' = advances + 1
        /\ req' = NoRequest
        /\ resp' = NoResponse
        /\ UNCHANGED <<sys_user, issued>>
        /\ UNCHANGED uploadVars
        /\ UNCHANGED callVars

\* the HR system of record sets employee.emp_status to something other than 1
DisableUser ==
    \E u \in Usernames :
        /\ req = NoRequest
        /\ sys_user[u].present
        /\ sys_user[u].emp_status = 1
        /\ sys_user' = [sys_user EXCEPT ![u].emp_status = 0]
        /\ req' = NoRequest
        /\ resp' = NoResponse
        /\ UNCHANGED <<now, advances, issued>>
        /\ UNCHANGED uploadVars
        /\ UNCHANGED callVars

\* an administrator gives a user another role (sys_user.user_role_id); as
\* in UserRows it is alice whose row varies
ChangeRole ==
    \E u \in {"alice"}, r \in {<<>>} \cup {<<i>> : i \in RoleIds} :
        /\ req = NoRequest
        /\ sys_user[u].present
        /\ sys_user[u].user_role_id # r
        /\ sys_user' = [sys_user EXCEPT ![u].user_role_id = r]
        /\ req' = NoRequest
        /\ resp' = NoResponse
        /\ UNCHANGED <<now, advances, issued>>
        /\ UNCHANGED uploadVars
        /\ UNCHANGED callVars

\* the sys_user row (or the employee it joins) is deleted
DeleteUser ==
    \E u \in Usernames :
        /\ req = NoRequest
        /\ sys_user[u].present
        /\ sys_user' = [sys_user EXCEPT ![u] = NoRow]
        /\ req' = NoRequest
        /\ resp' = NoResponse
        /\ UNCHANGED <<now, advances, issued>>
        /\ UNCHANGED uploadVars
        /\ UNCHANGED callVars

\* ------------------------------------------------------------ direct calls
NoDecoded == [raised |-> "", value |-> 0]
NoCall ==
    [op |-> "", number |-> 0, expires_delta |-> 0, token |-> <<>>,
     hashid |-> <<>>, decoded |-> NoDecoded]

\* a client's walk through the pages of one query: the filters and the page
\* size it keeps fixed, and the envelopes it has got so far
NoWalk == [periode |-> "", nipam |-> None, nama |-> <<>>, size |-> 0,
           envelopes |-> {}]

\* a fetch_page call: its arguments, the total its count query returned, the
\* table as it was then, whether the table had changed when the data query
\* ran, the number of matching rows then, and the envelope returned
NoPaging ==
    [pc |-> "idle", periode |-> "", nipam |-> None, nama |-> <<>>, page |-> 0,
     size |-> 0, total |-> 0, counted_on |-> {}, raced |-> FALSE,
     matching |-> 0, envelope |-> <<>>]

\* the pools a run creates at most
MaxPools == 2
Callers == {"c1", "c2"}

\* lru_cache of _create_connection_pool(False): empty, or the pool it holds;
\* the number of pools created; the connections checked out of each pool
NoPool == [cache |-> <<>>, made |-> 0, out |-> [p \in 1 .. MaxPools |-> 0]]

\* a caller in one of the two context managers: the local conn and cursor
\* (FALSE for None), the pool conn came from, the exception in flight, and
\* how often conn has been returned to its pool
NoOp ==
    [manager |-> "", pc |-> "idle", pool |-> 0, conn |-> FALSE,
     cursor |-> FALSE, exc |-> "", returns |-> 0]

\* no helper is called directly, no page is fetched, no connection is used
CallIdle ==
    /\ call = NoCall
    /\ fetched = NoWalk
    /\ paging = NoPaging
    /\ pool = NoPool
    /\ db_ops = [c \in Callers |-> NoOp]

\* no upload is made while the token and guard requests are explored
UploadIdle ==
    /\ upload_req = [u \in Uploads |-> [file |-> NoUploadFile, periode |-> "202401"]]
    /\ upl = [u \in Uploads |-> NewUpload]
    /\ repo_file = NoFile
    /\ repo_periode = ""
    /\ closed = {}
    /\ salary_kpi = {}

Init == AuthInit /\ UploadIdle /\ CallIdle

Next ==
    \/ TokenEndpoint
    \/ RefreshEndpoint
    \/ ValidateEndpoint
    \/ GuardedRequest
    \/ OrganizationEndpoint
    \/ MeEndpoint
    \/ Deliver
    \/ Advance
    \/ DisableUser
    \/ ChangeRole
    \/ DeleteUser

Spec == Init /\ [][Next]_vars

\* the uploads of two callers who have passed the guard
AuthIdle ==
    /\ sys_user = [u \in Usernames |->
           [present |-> TRUE, emp_status |-> 1, user_role_id |-> <<1>>,
            user_password |-> PASSWORD(PlainPassword[u])]]
    /\ now = 0
    /\ advances = 0
    /\ issued = {}
    /\ req = NoRequest
    /\ resp = NoResponse

InitUpload == AuthIdle /\ UploadInit /\ CallIdle

NextUpload ==
    \E u \in Uploads :
        \/ UploadStart(u)
        \/ SeekDone(u)
        \/ ReadDone(u)
        \/ FinallyDone(u)

SpecUpload == InitUpload /\ [][NextUpload]_vars

\* --------------------------------------------------------- paginated query
\* employee JOIN emp_profile JOIN position JOIN organization, by emp_code:
\* the name and the two columns the query orders by.  Employees 11 and 12
\* hold the same position.
employee ==
    [nipam \in {"11", "12", "13"} |->
        IF nipam = "11"
        THEN [emp_name |-> <<"a", "n", "i">>, org_level |-> 1, pos_level |-> 2]
        ELSE IF nipam = "12"
        THEN [emp_name |-> <<"b", "u", "d", "i">>, org_level |-> 1, pos_level |-> 2]
        ELSE [emp_name |-> <<"a", "d", "i">>, org_level |-> 1, pos_level |-> 1]]

\* emp_name LIKE %nama%
Like(emp_name, nama) ==
    \E i \in 0 .. (Len(emp_name) - Len(nama)) :
        \A j \in 1 .. Len(nama) : emp_name[i + j] = nama[j]

\* the rows of the base query of fetch_page_data: salary_kpi joined to its
\* employee, WHERE periode = %s, AND nipam = %s if req.nipam, AND emp_name
\* LIKE %s if req.nama
BaseQuery(periode, nipam, nama) ==
    {[periode |-> row[1], nipam |-> row[2], nama |-> employee[row[2]].emp_name,
      nominal |-> row[3]] :
        row \in {r \in salary_kpi :
                    /\ r[2] \in DOMAIN employee
                    /\ r[1] = periode
                    /\ (nipam # None => r[2] = nipam)
                    /\ (nama # <<>> => Like(employee[r[2]].emp_name, nama))}}

\* ORDER BY org.org_level, po.pos_level
OrderedBefore(a, b) ==
    \/ employee[a.nipam].org_level < employee[b.nipam].org_level
    \/ /\ employee[a.nipam].org_level = employee[b.nipam].org_level
       /\ employee[a.nipam].pos_level < employee[b.nipam].pos_level

\* the orders the server may deliver the rows in: every arrangement of the
\* rows that respects ORDER BY; rows with equal keys come in any order
ResultOrders(rows) ==
    {order \in [1 .. Cardinality(rows) -> rows] :
        /\ \A i, j \in DOMAIN order : i # j => order[i] # order[j]
        /\ \A i, j \in DOMAIN order :
               i < j => ~OrderedBefore(order[j], order[i])}

\* LIMIT size OFFSET offset
Window(order, size, offset) ==
    [k \in 1 .. (IF Len(order) - offset < 0 THEN 0
                 ELSE IF Len(order) - offset < size THEN Len(order) - offset
                 ELSE size) |-> order[offset + k]]

\* mutant: the partial last page is not counted
fetch_page_floor(total, order, page, size) ==
    LET offset == (page - 1) * size
        content == Window(order, size, offset)
    IN  [content |-> content, total |-> total, page |-> page,
         page_size |-> size,
         total_pages |-> total \div size,
         is_first |-> (page = 1),
         is_last |-> (offset + size >= total),
         is_empty |-> (Len(content) = 0),
         total_elements |-> Len(content)]

\* fetch_page: total from the count query, order from the data query
fetch_page(total, order, page, size) ==
    LET offset == (page - 1) * size
        content == Window(order, size, offset)
    IN  [content |-> content, total |-> total, page |-> page,
         page_size |-> size,
         total_pages |-> (total \div size) + (IF total % size > 0 THEN 1 ELSE 0),
         is_first |-> (page = 1),
         is_last |-> (offset + size >= total),
         is_empty |-> (Len(content) = 0),
         total_elements |-> Len(content)]

\* fetch_page_data(periode, req): the count query and the data query run on
\* the same base query; the data query's rows come in one of ResultOrders
fetch_page_data(periode, nipam, nama, page, size, order) ==
    fetch_page(Cardinality(BaseQuery(periode, nipam, nama)), order, page, size)

NipamFilters == {None, "11"}
NamaFilters == {<<>>, <<"a">>}

\* the tables a query can meet
KpiRows ==
    {<<"202401", "11", 100>>, <<"202401", "12", 200>>, <<"202401", "13", 300>>,
     <<"202402", "11", 150>>}

\* ----------------------------------------- fetch_page with uploads running
\* the count query of fetch_page: SELECT COUNT(*) over the base query, on a
\* connection of its own (fetch_count_data); the request sets no nipam or
\* nama filter
CountQuery ==
    \E periode \in Periodes, nipam \in {None}, nama \in {<<>>},
       size \in 1 .. MaxPageSize, page \in 1 .. MaxPage :
        /\ paging.pc \in {"idle", "done"}
        /\ paging' = [NoPaging EXCEPT !.pc = "counted", !.periode = periode,
                          !.nipam = nipam, !.nama = nama, !.page = page,
                          !.size = size,
                          !.total = Cardinality(BaseQuery(periode, nipam, nama)),
                          !.counted_on = salary_kpi]
        /\ UNCHANGED <<call, fetched, pool, db_ops>>
        /\ UNCHANGED authVars
        /\ UNCHANGED uploadVars

\* the data query of fetch_page: the base query with LIMIT and OFFSET, on
\* another connection (fetch_data), and the envelope built from both results
DataQuery ==
    /\ paging.pc = "counted"
    /\ \E order \in ResultOrders(BaseQuery(paging.periode, paging.nipam,
                                            paging.nama)) :
           paging' = [paging EXCEPT !.pc = "done",
                         !.raced = (salary_kpi # paging.counted_on),
                         !.matching = Len(order),
                         !.envelope = <<fetch_page(paging.total, order,
                                                   paging.page, paging.size)>>]
    /\ UNCHANGED <<call, fetched, pool, db_ops>>
    /\ UNCHANGED authVars
    /\ UNCHANGED uploadVars

\* one upload of a period 202401 row and one without a file, on a table
\* that holds rows of other employees
RaceInit ==
    /\ AuthIdle
    /\ upload_req =
           [A |-> [file |-> Xlsx(<<SheetRow(<<202401>>, 11, 100)>>),
                   periode |-> "202401"],
            B |-> [file |-> NoUploadFile, periode |-> "202401"]]
    /\ upl = [u \in Uploads |-> NewUpload]
    /\ repo_file = NoFile
    /\ repo_periode = ""
    /\ closed = {}
    /\ salary_kpi \in SUBSET {<<"202401", "12", 200>>, <<"202401", "13", 300>>}
    /\ CallIdle

NextRace ==
    \/ CountQuery
    \/ DataQuery
    \/ \E u \in Uploads :
           \/ UploadStart(u)
           \/ SeekDone(u)
           \/ ReadDone(u)
           \/ FinallyDone(u)

SpecRace == RaceInit /\ [][NextRace]_vars

\* --------------------------------------------------------- core/databases
Managers == {"database_connection", "_database_cursor"}

\* _create_connection_pool(autocommit): the cached pool, or a new one
_create_connection_pool == IF pool.cache # <<>> THEN pool.cache[1] ELSE pool.made + 1

\* conn = pool.get_connection(): the pool is looked up or created, and a
\* connection is taken from it; creating the pool or connecting can raise a
\* MySQLError, an exhausted pool raises another exception; conn stays None
AcquireConnection(c) ==
    \E manager \in Managers,
       outcome \in {"ok", "create fails", "MySQLError", "Exception"} :
        LET p == _create_connection_pool IN
        /\ db_ops[c].pc = "idle"
        /\ p <= MaxPools
        /\ outcome = "create fails" => pool.cache = <<>>
        /\ pool' = IF outcome = "create fails"
                   THEN pool
                   ELSE [cache |-> <<p>>,
                         made |-> IF pool.cache = <<>> THEN p ELSE pool.made,
                         out |-> IF outcome = "ok"
                                 THEN [pool.out EXCEPT ![p] = @ + 1]
                                 ELSE pool.out]
        /\ db_ops' = [db_ops EXCEPT ![c] =
               IF outcome = "ok"
               THEN [NoOp EXCEPT !.manager = manager, !.pool = p, !.conn = TRUE,
                        !.pc = IF manager = "database_connection"
                               THEN "ping" ELSE "cursor"]
               ELSE [NoOp EXCEPT !.manager = manager, !.pc = "except",
                        !.exc = IF outcome = "Exception"
                                THEN "Exception" ELSE "MySQLError"]]
        /\ UNCHANGED <<call, fetched, paging>>
        /\ UNCHANGED authVars
        /\ UNCHANGED uploadVars

\* database_connection: conn.ping(reconnect=True)
PingConnection(c) ==
    \E outcome \in {"ok", "MySQLError"} :
        /\ db_ops[c].pc = "ping"
        /\ db_ops' = [db_ops EXCEPT ![c] =
               IF outcome = "ok"
               THEN [@ EXCEPT !.pc = "body"]
               ELSE [@ EXCEPT !.pc = "except", !.exc = outcome]]
        /\ UNCHANGED <<call, fetched, paging, pool>>
        /\ UNCHANGED authVars
        /\ UNCHANGED uploadVars

\* _database_cursor: cursor = conn.cursor()
OpenCursor(c) ==
    \E outcome \in {"ok", "MySQLError"} :
        /\ db_ops[c].pc = "cursor"
        /\ db_ops' = [db_ops EXCEPT ![c] =
               IF outcome = "ok"
               THEN [@ EXCEPT !.pc = "body", !.cursor = TRUE]
               ELSE [@ EXCEPT !.pc = "except", !.exc = outcome]]
        /\ UNCHANGED <<call, fetched, paging, pool>>
        /\ UNCHANGED authVars
        /\ UNCHANGED uploadVars

\* the body of the with statement runs after the yield and returns or raises
RunBody(c) ==
    \E outcome \in {"ok", "MySQLError", "Exception"} :
        /\ db_ops[c].pc = "body"
        /\ db_ops' = [db_ops EXCEPT ![c] =
               IF outcome # "ok"
               THEN [@ EXCEPT !.pc = "except", !.exc = outcome]
               ELSE IF @.manager = "database_connection"
               THEN [@ EXCEPT !.pc = "finally"]
               ELSE [@ EXCEPT !.pc = "commit"]]
        /\ UNCHANGED <<call, fetched, paging, pool>>
        /\ UNCHANGED authVars
        /\ UNCHANGED uploadVars

\* _database_cursor: conn.commit() after the body
CommitBody(c) ==
    \E outcome \in {"ok", "MySQLError"} :
        /\ db_ops[c].pc = "commit"
        /\ db_ops' = [db_ops EXCEPT ![c] =
               IF outcome = "ok"
               THEN [@ EXCEPT !.pc = "finally"]
               ELSE [@ EXCEPT !.pc = "except", !.exc = outcome]]
        /\ UNCHANGED <<call, fetched, paging, pool>>
        /\ UNCHANGED authVars
        /\ UNCHANGED uploadVars

\* the except clause.  database_connection catches MySQLError only: it
\* clears the pool cache and raises.  _database_cursor catches everything:
\* conn.rollback() if there is a conn, which can raise in its turn, and the
\* exception goes on.  Either way the finally clause is next.
HandleException(c) ==
    \E rollback \in {"ok", "MySQLError"} :
        LET o == db_ops[c] IN
        /\ o.pc = "except"
        /\ rollback # "ok" => o.manager = "_database_cursor" /\ o.conn
        /\ pool' = IF o.manager = "database_connection" /\ o.exc = "MySQLError"
                   THEN [pool EXCEPT !.cache = <<>>]
                   ELSE pool
        /\ db_ops' = [db_ops EXCEPT ![c] =
               [o EXCEPT !.pc = "finally",
                         !.exc = IF rollback = "ok" THEN o.exc ELSE rollback]]
        /\ UNCHANGED <<call, fetched, paging>>
        /\ UNCHANGED authVars
        /\ UNCHANGED uploadVars

\* mutant: the connection is closed only when nothing was raised
database_connection_close_on_success(o) ==
    [o EXCEPT !.pc = "done",
              !.returns = @ + (IF o.conn /\ o.exc = "" THEN 1 ELSE 0)]

\* the finally clause of database_connection: if conn: conn.close(), which
\* puts a pooled connection back into its pool
database_connection_finally(o) ==
    [o EXCEPT !.pc = "done", !.returns = @ + (IF o.conn THEN 1 ELSE 0)]

\* the finally clause of _database_cursor: cursor.close() if there is a
\* cursor (it only drains unread result sets), then conn.close() if there is
\* a conn
_database_cursor_finally(o) ==
    [o EXCEPT !.pc = "done", !.cursor = FALSE,
              !.returns = @ + (IF o.conn THEN 1 ELSE 0)]

ReleaseConnection(c) ==
    LET o == db_ops[c]
        left == IF o.manager = "database_connection"
                THEN database_connection_finally(o)
                ELSE _database_cursor_finally(o)
    IN  /\ o.pc = "finally"
        /\ db_ops' = [db_ops EXCEPT ![c] = left]
        /\ pool' = IF o.conn
                   THEN [pool EXCEPT !.out[o.pool] = @ - (left.returns - o.returns)]
                   ELSE pool
        /\ UNCHANGED <<call, fetched, paging>>
        /\ UNCHANGED authVars
        /\ UNCHANGED uploadVars

\* the with statement is left; the caller's next operation can start
LeaveWith(c) ==
    /\ db_ops[c].pc = "done"
    /\ db_ops' = [db_ops EXCEPT ![c] = NoOp]
    /\ UNCHANGED <<call, fetched, paging, pool>>
    /\ UNCHANGED authVars
    /\ UNCHANGED uploadVars

InitPool == AuthIdle /\ UploadIdle /\ CallIdle

NextPool ==
    \E c \in Callers :
        \/ AcquireConnection(c)
        \/ PingConnection(c)
        \/ OpenCursor(c)
        \/ RunBody(c)
        \/ CommitBody(c)
        \/ HandleException(c)
        \/ ReleaseConnection(c)
        \/ LeaveWith(c)

SpecPool == InitPool /\ [][NextPool]_vars

\* ------------------------------------------------ helpers called directly
\* the wall-clock instants a helper is called at: different seconds,
\* minutes, days, months and fractions of a second
CallTimes ==
    {0, 1, 59 * TicksPerSecond, 61 * TicksPerSecond + 1,
     3599 * TicksPerSecond + 1, 86400 * TicksPerSecond,
     (32 * 86400 + 3600 + 125) * TicksPerSecond + 1,
     (364 * 86400 + 86399) * TicksPerSecond + 1}

\* expires_delta in seconds, 0 for None
ExpiresDeltas == {0, 60, refresh_token_expire_days * 86400}

CreateAccessTokenCall ==
    \E u \in Usernames, expires_delta \in ExpiresDeltas :
        /\ call' = [NoCall EXCEPT !.op = "create_access_token",
                        !.expires_delta = expires_delta,
                        !.token = <<create_access_token(get_user(u)[1],
                                                        expires_delta)>>]
        /\ UNCHANGED <<fetched, paging, pool, db_ops>>
        /\ UNCHANGED authVars
        /\ UNCHANGED uploadVars

CreateRefreshTokenCall ==
    \E u \in Usernames, expires_delta \in ExpiresDeltas :
        /\ call' = [NoCall EXCEPT !.op = "create_refresh_token",
                        !.expires_delta = expires_delta,
                        !.token = <<create_refresh_token(get_user(u)[1],
                                                         expires_delta)>>]
        /\ UNCHANGED <<fetched, paging, pool, db_ops>>
        /\ UNCHANGED authVars
        /\ UNCHANGED uploadVars

\* SqidsHelper.encode(number) and SqidsHelper.decode of the id it returned
SqidsCall ==
    \E number \in 0 .. MaxNumber :
        /\ call' = [NoCall EXCEPT !.op = "sqids", !.number = number,
                        !.hashid = encode(number),
                        !.decoded = decode(encode(number))]
        /\ UNCHANGED <<fetched, paging, pool, db_ops>>
        /\ UNCHANGED authVars
        /\ UNCHANGED uploadVars

\* GET /tunkin/{periode}: a client fetches one more page of its query; the
\* first fetch fixes the filters and the page size of the walk
FetchPage ==
    \E periode \in Periodes, nipam \in NipamFilters, nama \in NamaFilters,
       size \in 1 .. MaxPageSize, page \in 1 .. MaxPage :
        \E order \in ResultOrders(BaseQuery(periode, nipam, nama)) :
            /\ \/ fetched = NoWalk
               \/ /\ fetched.periode = periode /\ fetched.nipam = nipam
                  /\ fetched.nama = nama /\ fetched.size = size
            /\ \A e \in fetched.envelopes : e.page # page
            /\ fetched' =
                   [periode |-> periode, nipam |-> nipam, nama |-> nama,
                    size |-> size,
                    envelopes |-> fetched.envelopes \cup
                        {fetch_page_data(periode, nipam, nama, page, size, order)}]
            /\ UNCHANGED <<call, paging, pool, db_ops>>
            /\ UNCHANGED authVars
            /\ UNCHANGED uploadVars

InitCalls ==
    /\ sys_user = [u \in Usernames |->
           [present |-> TRUE, emp_status |-> 1, user_role_id |-> <<1>>,
            user_password |-> PASSWORD(PlainPassword[u])]]
    /\ now \in CallTimes
    /\ advances = 0
    /\ issued = {}
    /\ req = NoRequest
    /\ resp = NoResponse
    /\ UploadIdle
    /\ CallIdle

NextCalls ==
    \/ CreateAccessTokenCall
    \/ CreateRefreshTokenCall
    \/ SqidsCall

SpecCalls == InitCalls /\ [][NextCalls]_vars

\* the paginated list endpoint, called by a client who has passed the guard,
\* on any table of KpiRows
InitPages ==
    /\ AuthIdle
    /\ upload_req = [u \in Uploads |-> [file |-> NoUploadFile, periode |-> "202401"]]
    /\ upl = [u \in Uploads |-> NewUpload]
    /\ repo_file = NoFile
    /\ repo_periode = ""
    /\ closed = {}
    /\ salary_kpi \in SUBSET KpiRows
    /\ CallIdle

NextPages == FetchPage

SpecPages == InitPages /\ [][NextPages]_vars

\* ------------------------------------------------------------------ claims
\* what a request's inputs are, read from the tables and the token, not
\* from the handlers
GoodClient == req.client_id = jwt_client_id /\ req.client_secret = jwt_client_secret
KnownUser(username) == username \in Usernames /\ sys_user[username].present
GoodPassword ==
    KnownUser(req.username) /\ req.password = PlainPassword[req.username]
Enabled(username) == KnownUser(username) /\ sys_user[username].emp_status = 1
Presented == req.token[1]
SignedAndUnexpired(token) ==
    token.key = jwt_secret_key /\ now < token.exp * TicksPerSecond
TokenServed == req.endpoint = "" /\ req'.endpoint = "token"
RefreshServed == req.endpoint = "" /\ req'.endpoint = "refresh"

\* C1: two uploads in flight do not interfere: no upload's file is closed
\* or replaced in the repository while the upload is in flight, and each
\* upload parses its own file and compares it with its own declared periode.
C1_UploadsDoNotInterfere ==
    \A u \in Uploads :
        /\ InFlight(u) => u \notin closed /\ repo_file = u
        /\ upl[u].parsed_file # NoFile
               => /\ upl[u].parsed_file = u
                  /\ upl[u].periode_checked = upload_req[u].periode

\* C2: on the token endpoint, with the configured client, a login with an
\* unknown username and a login with a known username and a wrong password
\* get the same response: 401, 'Incorrect username or password', no data.
C2_SameAnswerUnknownOrWrongPassword ==
    (req.endpoint = "token" /\ GoodClient /\ ~GoodPassword)
        => resp = [NoResponse EXCEPT !.status = 401,
                       !.errors = "Incorrect username or password"]

C2_Witness ==
    /\ req.endpoint = "token" /\ GoodClient
    /\ Enabled(req.username) /\ ~GoodPassword
    /\ resp.status = 401

\* C3: the token endpoint creates the access/refresh pair only if the client
\* matches, then the credentials verify, then the user is not disabled; the
\* first failing check decides the answer (401, 401, 400) and no token is
\* created on any of them.
C3_TokenAnswer ==
    /\ resp'.status = 201
           <=> (GoodClient /\ GoodPassword /\ Enabled(req.username))'
    /\ ~GoodClient'
           => resp'.status = 401 /\ resp'.errors = "Invalid client credentials"
    /\ (GoodClient /\ ~GoodPassword)'
           => resp'.status = 401
              /\ resp'.errors = "Incorrect username or password"
    /\ (GoodClient /\ GoodPassword /\ ~Enabled(req.username))'
           => resp'.status = 400 /\ resp'.errors = "inactive_user"
    /\ resp'.status # 201 => resp'.data.tokens = <<>> /\ issued' = issued
    /\ resp'.status = 201
           => /\ Len(resp'.data.tokens) = 2
              /\ resp'.data.tokens[1].type = "access_token"
              /\ resp'.data.tokens[2].type = "refresh_token"
              /\ \A i \in 1 .. 2 : resp'.data.tokens[i].sub = req'.username
              /\ issued' = issued \cup {resp'.data.tokens[1], resp'.data.tokens[2]}

C3_TokenOnlyAfterThreeChecks == [][TokenServed => C3_TokenAnswer]_vars

C3_Witness ==
    /\ req.endpoint = "token" /\ GoodClient /\ GoodPassword
    /\ ~Enabled(req.username)
    /\ resp.status = 400 /\ issued = {}

\* C4: get_current_user yields a user only for a token of type access_token
\* with a subject; a validly signed, unexpired refresh token presented as the
\* bearer token is answered 401 and yields no user.
C4_OnlyAccessTokensAccepted ==
    req.endpoint = "guarded" =>
        /\ resp.guard.user # <<>>
               => Presented.type = "access_token" /\ Presented.sub # None
        /\ (SignedAndUnexpired(Presented) /\ Presented.type = "refresh_token")
               => /\ resp.guard.status = 401
                  /\ resp.guard.raised = "HTTPException"
                  /\ resp.guard.user = <<>>

C4_Witness ==
    /\ req.endpoint = "guarded"
    /\ SignedAndUnexpired(Presented) /\ Presented.type = "refresh_token"
    /\ Enabled(Presented.sub)
    /\ sys_user[Presented.sub].user_role_id = <<1>>
    /\ req.required_role = {"payrollprocess"}
    /\ resp.guard.status = 401

\* C5: a guarded request with an issued, still unexpired access token whose
\* user is disabled or gone when the request is served fails with 401 and
\* yields no user.
C5_DisabledOrDeletedUserRejected ==
    (/\ req.endpoint = "guarded"
     /\ Presented \in issued
     /\ Presented.type = "access_token"
     /\ SignedAndUnexpired(Presented)
     /\ ~Enabled(Presented.sub))
        => /\ resp.guard.status = 401
           /\ resp.guard.raised = "HTTPException"
           /\ resp.guard.user = <<>>

C5_Witness ==
    /\ req.endpoint = "guarded"
    /\ Presented \in issued
    /\ Presented.type = "access_token"
    /\ SignedAndUnexpired(Presented)
    /\ KnownUser(Presented.sub) /\ ~Enabled(Presented.sub)
    /\ resp.guard.status = 401

\* C6: a guarded request whose token resolves to a disabled user fails with
\* the guard's BadRequest: 400, 'Inactive user'.
C6_DisabledUserGetsInactive400 ==
    (/\ req.endpoint = "guarded"
     /\ Presented.type = "access_token"
     /\ SignedAndUnexpired(Presented)
     /\ KnownUser(Presented.sub) /\ ~Enabled(Presented.sub))
        => /\ resp.guard.status = 400
           /\ resp.guard.detail = "Inactive user"

\* the menu codes mapped to the role stored for a user: none for a null role
\* and for a role without sys_role_menu rows
StoredRole(username) == sys_user[username].user_role_id
CodesOf(username) ==
    IF StoredRole(username) # <<>> /\ StoredRole(username)[1] \in DOMAIN sys_role_menu
    THEN sys_role_menu[StoredRole(username)[1]]
    ELSE {}
EnabledUserAtGuard ==
    /\ req.endpoint = "guarded"
    /\ Presented.type = "access_token"
    /\ Presented.sub # None
    /\ SignedAndUnexpired(Presented)
    /\ Enabled(Presented.sub)

\* C7: for an enabled authenticated user the guard passes the user through
\* if and only if the menu codes of the user's role intersect the required
\* ones, and fails with 403 otherwise.
C7_PassIffCodesIntersect ==
    EnabledUserAtGuard =>
        /\ (resp.guard.status = 200 /\ resp.guard.user # <<>>)
               <=> CodesOf(Presented.sub) \cap req.required_role # {}
        /\ CodesOf(Presented.sub) \cap req.required_role = {}
               => resp.guard.status = 403 /\ resp.guard.raised = "HTTPException"

\* C8: an enabled user whose role has no capability rows (a null role, or a
\* role without role-menu rows) is denied with 403 for every required set,
\* never with an unhandled error.
C8_NoRowsIsForbidden ==
    (EnabledUserAtGuard /\ CodesOf(Presented.sub) = {})
        => resp.guard.status = 403 /\ resp.guard.raised = "HTTPException"

\* C9: the refresh endpoint answers with a new access token exactly when the
\* presented token is validly signed, unexpired, of type refresh_token and
\* its subject is an existing user; otherwise it answers 401 and creates no
\* token.
C9_RefreshAnswer ==
    LET good == (/\ SignedAndUnexpired(Presented)
                 /\ Presented.type = "refresh_token"
                 /\ KnownUser(Presented.sub))'
    IN  /\ good => /\ resp'.status = 200
                   /\ Len(resp'.data.tokens) = 1
                   /\ resp'.data.tokens[1].type = "access_token"
                   /\ resp'.data.tokens[1].sub = Presented'.sub
                   /\ issued' = issued \cup {resp'.data.tokens[1]}
        /\ ~good => /\ resp'.status = 401
                    /\ resp'.data.tokens = <<>>
                    /\ issued' = issued

C9_RefreshOnlyForGoodRefreshToken == [][RefreshServed => C9_RefreshAnswer]_vars

C9_Witness ==
    /\ req.endpoint = "refresh"
    /\ Presented \in issued
    /\ Presented.type = "refresh_token"
    /\ SignedAndUnexpired(Presented)
    /\ ~KnownUser(Presented.sub)
    /\ resp.status = 401

\* C10: an access token created for user u with lifetime ttl decodes with
\* sub = u.username right after its creation and at any time before
\* iat + ttl, and decoding it fails with ExpiredSignature at any time after
\* iat + ttl (iat being the token's issued-at claim, in whole seconds).
AccessTtl == jwt_access_token_expire_minutes * 60
C10_DecodeBeforeAndAfterExpiry ==
    /\ (req.endpoint = "token" /\ resp.status = 201)
           => /\ decode_token(resp.data.tokens[1]).raised = ""
              /\ decode_token(resp.data.tokens[1]).payload.sub = req.username
              /\ resp.data.tokens[1].iat = now \div TicksPerSecond
    /\ (req.endpoint = "validate" /\ Presented \in issued
        /\ Presented.type = "access_token")
           => /\ now < (Presented.iat + AccessTtl) * TicksPerSecond
                  => resp.data.valid /\ resp.data.username = Presented.sub
              /\ now > (Presented.iat + AccessTtl) * TicksPerSecond
                  => ~resp.data.valid /\ resp.data.error = "Token has expired"

C10_Witness ==
    /\ req.endpoint = "validate" /\ Presented \in issued
    /\ Presented.type = "access_token"
    /\ now > (Presented.iat + AccessTtl) * TicksPerSecond
    /\ resp.data.error = "Token has expired"

\* C11: a refresh token created without an explicit lifetime expires 7 days
\* after its issued-at claim, and an access token created without an explicit
\* lifetime expires the configured access-token minutes after its issued-at
\* claim.
C11_DefaultLifetimes ==
    /\ (call.op = "create_refresh_token" /\ call.expires_delta = 0)
           => call.token[1].exp
                  = call.token[1].iat + refresh_token_expire_days * 86400
    /\ (call.op = "create_access_token" /\ call.expires_delta = 0)
           => call.token[1].exp
                  = call.token[1].iat + jwt_access_token_expire_minutes * 60

WalkRows == BaseQuery(fetched.periode, fetched.nipam, fetched.nama)
Ceil(T, S) == CHOOSE k \in 0 .. T : k * S >= T /\ \A m \in 0 .. T : m * S >= T => k <= m

WalkPages == {e \in fetched.envelopes : e.page <= e.total_pages}
WalkComplete ==
    /\ fetched.envelopes # {}
    /\ \A e \in fetched.envelopes :
           \A p \in 1 .. e.total_pages : \E f \in fetched.envelopes : f.page = p

RECURSIVE SumOfElements(_)
SumOfElements(envelopes) ==
    IF envelopes = {}
    THEN 0
    ELSE LET e == CHOOSE x \in envelopes : TRUE
         IN  e.total_elements + SumOfElements(envelopes \ {e})

\* the places (page, position) a row is returned at
PlacesOf(row) ==
    {<<e.page, i>> : e \in WalkPages, i \in 1 .. MaxPageSize} \cap
    UNION {{<<e.page, i>> : i \in {k \in DOMAIN e.content : e.content[k] = row}} :
              e \in WalkPages}

\* C14: with the query, the filters and the page size fixed, fetching pages
\* 1 .. total_pages returns every matching row exactly once: the row counts
\* of the pages add up to total, and every page but the last is full.
C14_EveryRowExactlyOnce ==
    WalkComplete =>
        /\ SumOfElements(WalkPages) = Cardinality(WalkRows)
        /\ \A e \in WalkPages :
               e.page < e.total_pages => e.total_elements = e.page_size
        /\ \A row \in WalkRows : Cardinality(PlacesOf(row)) = 1

\* the validation rules in the order of the specification, as predicates on
\* the uploaded file, and the reason reported for each
RuleBroken(file, rule) ==
    CASE rule = 1 -> ~file.present
      [] rule = 2 -> file.filename = <<>>
      [] rule = 3 -> file.filename # <<>>
                     /\ file.filename[Len(file.filename)]
                            \notin {"xls", "xlsx", "XLS", "XLSX"}
      [] rule = 4 -> ~(0 < file.size /\ file.size <= 50 * 1024 * 1024)
      [] rule = 5 -> file.content_type \notin allowed_content_types
RuleReasons(file, rule) ==
    CASE rule = 1 -> {"File tidak ditemukan"}
      [] rule = 2 -> {"Nama File tidak valid"}
      [] rule = 3 -> {"Ekstensi file tidak diizinkan"}
      [] rule = 4 -> {"Ukuran file melebihi batas maksimum", "File Kosong"}
      [] rule = 5 -> {"Tipe konten file tidak valid untuk file Excel."}
RulesBroken(file) ==
    IF ~file.present THEN {1} ELSE {rule \in 2 .. 5 : RuleBroken(file, rule)}
EarliestBroken(file) ==
    CHOOSE rule \in RulesBroken(file) : \A other \in RulesBroken(file) : rule <= other

\* C15: an upload whose file breaks one or more validation rules is
\* answered 400 with the reason of the earliest broken rule in the order file,
\* filename, extension, size, content type; it goes no further: nothing is
\* parsed and nothing is written.
C15_Rejection(u) ==
    (/\ upl[u].pc = "new" /\ upl'[u].pc # "new"
     /\ RulesBroken(upload_req[u].file) # {})
        => /\ upl'[u].pc = "done"
           /\ upl'[u].answer.status = 400
           /\ upl'[u].answer.envelope
           /\ upl'[u].answer.errors
                  \in RuleReasons(upload_req[u].file,
                                  EarliestBroken(upload_req[u].file))
           /\ upl'[u].parsed_file = NoFile
           /\ salary_kpi' = salary_kpi

C15_EarliestBrokenRuleWins == [][\A u \in Uploads : C15_Rejection(u)]_vars

C15_Witness ==
    \E u \in Uploads :
        /\ Cardinality(RulesBroken(upload_req[u].file)) = 3
        /\ upl[u].pc = "done"
        /\ upl[u].answer.errors = "Ekstensi file tidak diizinkan"

\* the distinct period values of the rows an upload's own file retains
OwnPeriods(u) ==
    {ToString(upload_req[u].file.rows[i].periode[1]) :
        i \in {k \in DOMAIN upload_req[u].file.rows :
                  upload_req[u].file.rows[k].periode # <<>>}}

\* C16: an upload whose file passes validation and holds more than one
\* distinct period is answered 400 for inconsistent periods whatever period
\* was declared, and one whose file holds a single period other than the
\* declared one is answered 400 for the mismatch; neither commits anything.
C16_MixedOrMismatchedPeriodRejected ==
    \A u \in Uploads :
        (upl[u].pc = "done" /\ RulesBroken(upload_req[u].file) = {}) =>
            /\ Cardinality(OwnPeriods(u)) > 1
                   => /\ upl[u].answer.status = 400
                      /\ upl[u].answer.errors
                             = "Periode pada file excel tidak konsisten!"
                      /\ ~upl[u].committed
            /\ (/\ Cardinality(OwnPeriods(u)) = 1
                /\ OwnPeriods(u) # {upload_req[u].periode})
                   => /\ upl[u].answer.status = 400
                      /\ upl[u].answer.errors
                             = "Periode pada file dengan request tidak sesuai!"
                      /\ ~upl[u].committed

\* the step in which an upload's save_update runs, and the (periode, nipam)
\* keys of a batch
SaveUpdateRan(u) == upl[u].batch = <<>> /\ upl'[u].batch # <<>>
KeysOf(batch) == {<<batch[i][1], batch[i][2]>> : i \in DOMAIN batch}
\* the batch's rows as they stand once all are upserted: the last row of
\* each key
FinalRows(batch) ==
    {batch[i] : i \in {k \in DOMAIN batch :
        \A j \in DOMAIN batch :
            (j > k) => <<batch[j][1], batch[j][2]>> # <<batch[k][1], batch[k][2]>>}}
AllCommitted(u) ==
    LET batch == upl'[u].batch
    IN  salary_kpi' = {row \in salary_kpi : <<row[1], row[2]>> \notin KeysOf(batch)}
                         \cup FinalRows(batch)
NoneCommitted == salary_kpi' = salary_kpi

\* C17: when save_update has run on an upload's batch, the table holds
\* either every row of the batch or is as it was before: never a part of
\* the batch, whether executemany failed midway, commit failed, or all went
\* well.
C17_Atomic(u) ==
    SaveUpdateRan(u) =>
        /\ upl'[u].committed => AllCommitted(u)
        /\ ~upl'[u].committed => NoneCommitted

C17_BatchIsAtomic == [][\A u \in Uploads : C17_Atomic(u)]_vars

C17_Witness ==
    \E u \in Uploads :
        /\ Len(upl[u].batch) = 2
        /\ ~upl[u].committed
        /\ upl[u].pending.raised = ""
        /\ \A i \in DOMAIN upl[u].batch : upl[u].batch[i] \notin salary_kpi

\* C18: an upload whose batch went to save_update and was not committed
\* (executemany, commit or the connection failed) does not return success:
\* the error reaches the caller and the endpoint answers 500.
C18_FailedUpsertIsAnError ==
    \A u \in Uploads :
        (upl[u].pc = "done" /\ upl[u].batch # <<>> /\ ~upl[u].committed)
            => /\ upl[u].pending.raised # ""
               /\ upl[u].answer.status = 500

\* C19: when the same valid file has been uploaded twice for the same
\* period and both upserts were committed, the table holds, for the keys of
\* the file, exactly the file's rows, one row per (periode, nipam) key, as
\* after the first upload, and both uploads report the same affected_rows.
SameUploadTwice ==
    /\ upload_req["A"] = upload_req["B"]
    /\ \A u \in Uploads :
           upl[u].pc = "done" /\ upl[u].committed /\ upl[u].answer.status = 200

C19_AfterBoth ==
    SameUploadTwice =>
        /\ \A row \in salary_kpi :
               <<row[1], row[2]>> \in KeysOf(upl["A"].batch)
                   => row \in FinalRows(upl["A"].batch)
        /\ FinalRows(upl["A"].batch) \subseteq salary_kpi
        /\ \A r1, r2 \in salary_kpi :
               (r1[1] = r2[1] /\ r1[2] = r2[2]) => r1 = r2
        /\ upl["A"].answer.affected_rows = upl["B"].answer.affected_rows

\* the committed upsert of the second upload leaves the table as the first
\* upload left it
C19_SecondChangesNothing ==
    \A u, v \in Uploads :
        (/\ u # v
         /\ upload_req[u] = upload_req[v]
         /\ upl[v].committed
         /\ SaveUpdateRan(u) /\ upl'[u].committed
         /\ upl'[u].batch = upl[v].batch)
            => salary_kpi' = salary_kpi

C19_UploadIsIdempotent == [](C19_AfterBoth) /\ [][C19_SecondChangesNothing]_vars

C19_Witness ==
    /\ SameUploadTwice
    /\ Len(upl["A"].batch) = 2
    /\ Cardinality(salary_kpi) = 3

\* how often the handle of an upload's file has been reset by a finally
\* block's seek(0) or released by cleanup()
Released(u) == upl[u].resets + (IF u \in closed THEN 1 ELSE 0)

\* C20: when upload() returns for an upload that brought a file, whatever
\* the outcome, the file's handle has been released or reset exactly once.
C20_Return(u) ==
    (upl[u].pc # "done" /\ upl'[u].pc = "done" /\ upload_req[u].file.present)
        => Released(u)' = 1

C20_ReleasedExactlyOnce == [][\A u \in Uploads : C20_Return(u)]_vars

\* C21: whatever an upload ends with (success, an HTTPException of any
\* status, any other exception raised while validating, parsing or
\* writing), the endpoint's response is the uniform envelope, never an empty
\* body or a bare error.
C21_AlwaysTheEnvelope ==
    \A u \in Uploads : upl[u].pc = "done" => upl[u].answer.envelope

\* C22: the organization list endpoint hands out organization rows only to a
\* request that carries an unexpired, correctly signed access token of an
\* existing, enabled user.
C22_OrganizationsOnlyWithValidToken ==
    (req.endpoint = "organization" /\ resp.data.organizations # {})
        => /\ req.token # <<>>
           /\ SignedAndUnexpired(req.token[1])
           /\ req.token[1].type = "access_token"
           /\ KnownUser(req.token[1].sub)
           /\ Enabled(req.token[1].sub)

\* the user record a served request has got from authenticate (the token
\* endpoint) or from get_current_user (a guard that passed the user through)
ReturnedUserRecords ==
    (IF req.endpoint = "token"
     THEN {authenticate(req.username, req.password)} \ {<<>>}
     ELSE {})
    \cup (IF req.endpoint \in {"guarded", "me"} /\ resp.guard.status = 200
          THEN {resp.guard.user}
          ELSE {})

\* C23: the user record returned by authenticate, and the one returned by
\* get_current_user and handed to the me endpoint, carries the role encoded,
\* not as the stored integer, and does not carry the stored password hash.
C23_RecordHidesRoleAndPassword ==
    \A user \in ReturnedUserRecords :
        /\ StoredRole(user[1].username) # <<>>
               => /\ user[1].role # StoredRole(user[1].username)
                  /\ decode(user[1].role).value = StoredRole(user[1].username)[1]
        /\ user[1].user_password # sys_user[user[1].username].user_password

\* C26: an access token is created, by the token endpoint or by the refresh
\* endpoint, only for a user who is enabled when it is created.
C26_NoAccessTokenForDisabledUser ==
    (req.endpoint \in {"token", "refresh"} /\ resp.data.tokens # <<>>)
        => Enabled(resp.data.tokens[1].sub)

\* C27: a guarded request with an issued, valid access token of an enabled
\* user passes exactly when the menu codes of the role the user has in the
\* table now intersect the required ones, whatever role the token was issued
\* with.
C27_GuardUsesLiveRole ==
    (EnabledUserAtGuard /\ Presented \in issued)
        => ((resp.guard.status = 200 /\ resp.guard.user # <<>>)
               <=> CodesOf(Presented.sub) \cap req.required_role # {})

\* the role was changed after the token was issued, from one whose codes
\* pass the required set to one whose codes do not, or the other way round
RoleAtIssue == decode(Presented.role).value
C27_Witness ==
    /\ EnabledUserAtGuard /\ Presented \in issued
    /\ Presented.role # <<>>
    /\ StoredRole(Presented.sub) # <<>>
    /\ RoleAtIssue # StoredRole(Presented.sub)[1]
    /\ (fetch_menus(RoleAtIssue) \cap req.required_role # {})
           # (CodesOf(Presented.sub) \cap req.required_role # {})
    /\ resp.guard.status \in {200, 403}

\* C24: an upload's upsert runs only after its file has passed validation
\* and its rows have been found non-empty and of the single, declared period;
\* the salary table changes in no other step, so an upload that ends
\* rejected or failed before the upsert leaves the table as it was.
C24_Step(u) ==
    /\ SaveUpdateRan(u)
           => /\ upl[u].pc = "read"
              /\ RulesBroken(upload_req[u].file) = {}
              /\ OwnPeriods(u) = {upload_req[u].periode}
    /\ (upl'[u] # upl[u] /\ ~SaveUpdateRan(u)) => salary_kpi' = salary_kpi

C24_UpsertOnlyAfterAllChecks == [][\A u \in Uploads : C24_Step(u)]_vars

\* the callers that hold a connection of pool p they have not returned
Holding(p) ==
    {c \in Callers : db_ops[c].conn /\ db_ops[c].pool = p /\ db_ops[c].returns = 0}

\* C25: a caller that has left database_connection or _database_cursor has
\* returned the connection it acquired exactly once (and none if it acquired
\* none), whatever failed on the way; a pool's checked-out count is the
\* number of callers still holding one of its connections, so no connection
\* is checked out when no operation is in flight.
C25_ReturnedExactlyOnce ==
    /\ \A c \in Callers :
           /\ db_ops[c].returns <= 1
           /\ db_ops[c].pc = "done"
                  => db_ops[c].returns = (IF db_ops[c].conn THEN 1 ELSE 0)
    /\ \A p \in 1 .. MaxPools : pool.out[p] = Cardinality(Holding(p))
    /\ (\A c \in Callers : db_ops[c].pc \in {"idle", "done"})
           => \A p \in 1 .. MaxPools : pool.out[p] = 0

\* a caller of database_connection whose body raised returned its connection
\* to a pool that another caller's failure has meanwhile dropped from the
\* cache, while the other caller holds a connection of the new pool
C25_Witness ==
    \E c, d \in Callers :
        /\ db_ops[c].manager = "database_connection"
        /\ db_ops[c].pc = "done" /\ db_ops[c].conn /\ db_ops[c].exc # ""
        /\ db_ops[c].returns = 1
        /\ pool.cache # <<db_ops[c].pool>>
        /\ db_ops[d].manager = "_database_cursor"
        /\ db_ops[d].pc = "commit" /\ db_ops[d].pool # db_ops[c].pool

\* the offset of the page a fetch_page call asked for
PageOffset == (paging.page - 1) * paging.size

====
